---- MODULE Spec2Model ----
\* Regex compiler: recursive-descent parser (RegexCompiler.py), Thompson NFA
\* builder and matcher (NFA.py), subset construction and partition-refinement
\* minimizer (DFA.py).
EXTENDS Integers, Sequences, FiniteSets, TLC

\* ------------------------------------------------------------------ bounds
\* longest regex enumerated exhaustively over a specification's alphabet
MaxRegexLen == 3
\* longest input string handed to NFA.match and run on the DFA
MaxInputLen == 2
\* longest label sequence run on a DFA and on its minimization
MaxSeqLen == 3
\* number of times the minimizer is run on the same DFA object
MaxPasses == 2

\* ------------------------------------------------------------- characters
\* Python None (ExprNode.value of a node that was never given a character)
NoneV == "None"

\* code points of the characters the model draws regexes and inputs from
Ord(c) ==
    CASE c = " " -> 32 [] c = "(" -> 40 [] c = ")" -> 41 [] c = "*" -> 42
      [] c = "+" -> 43 [] c = "-" -> 45 [] c = "." -> 46 [] c = "?" -> 63
      [] c = "[" -> 91 [] c = "\\" -> 92 [] c = "]" -> 93
      [] c = "a" -> 97 [] c = "b" -> 98 [] c = "c" -> 99
      [] c = "|" -> 124 [] c = "ε" -> 949

PARAM_ONE_OR_ZERO == "?"
PARAM_ONE_OR_MORE == "+"
PARAM_ANY_OR_MORE == "*"
SPECIAL_CHARS == {"(", ")", "[", "|", "?", "+", "*"}

\* ------------------------------------------------------------------ parser
\* ExprNode(): children = [], params = {} (quantifier, start, end absent)
ExprNode(t) ==
    [type |-> t, value |-> NoneV, children |-> <<>>,
     quantifier |-> NoneV, start |-> -1, end |-> -1]

\* result of a parsing routine: ok = FALSE when it raised an Exception
ParseOk(node, pos) == [ok |-> TRUE, none |-> FALSE, node |-> node, pos |-> pos]
ParseNone(pos) == [ok |-> TRUE, none |-> TRUE, node |-> ExprNode(NoneV), pos |-> pos]
ParseError(pos) == [ok |-> FALSE, none |-> FALSE, node |-> ExprNode(NoneV), pos |-> pos]

\* _peak(offset): the character at position + offset, None past the end
peak(s, pos, offset) ==
    IF pos + offset >= Len(s) THEN NoneV ELSE s[pos + offset + 1]

\* _done()
done(s, pos) == pos >= Len(s)

\* _eat(char): TRUE iff the cursor advances (by one); char = None eats anything
eat(s, pos, char) ==
    IF pos >= Len(s) THEN FALSE
    ELSE IF char = NoneV THEN TRUE
    ELSE s[pos + 1] = char

\* _assignQuantifier(node): the node with its quantifier and the new cursor
assignQuantifier(s, pos, node) ==
    IF eat(s, pos, PARAM_ONE_OR_ZERO)
    THEN ParseOk([node EXCEPT !.quantifier = PARAM_ONE_OR_ZERO], pos + 1)
    ELSE IF eat(s, pos, PARAM_ONE_OR_MORE)
    THEN ParseOk([node EXCEPT !.quantifier = PARAM_ONE_OR_MORE], pos + 1)
    ELSE IF eat(s, pos, PARAM_ANY_OR_MORE)
    THEN ParseOk([node EXCEPT !.quantifier = PARAM_ANY_OR_MORE], pos + 1)
    ELSE ParseOk(node, pos)

\* _parseChar(): a Char node holding the character under the cursor
parseChar(s, pos) ==
    LET top == peak(s, pos, 0)
    IN  ParseOk([ExprNode("Char") EXCEPT !.value = top],
                IF eat(s, pos, top) THEN pos + 1 ELSE pos)

\* _parseAny(): an Any node, value left unset
parseAny(s, pos) ==
    ParseOk(ExprNode("Any"), IF eat(s, pos, ".") THEN pos + 1 ELSE pos)

\* _parseRange(): a Range node for "x-y", None when the cursor is not on one
parseRange(s, pos) ==
    IF peak(s, pos, 1) = "-" /\ peak(s, pos, 2) # NoneV
    THEN LET start == Ord(peak(s, pos, 0))
             end == Ord(peak(s, pos, 2))
         IN  IF start > end THEN ParseError(pos + 3)
             ELSE ParseOk([ExprNode("Range") EXCEPT !.start = start, !.end = end],
                          pos + 3)
    ELSE ParseNone(pos)

\* the Range-else-Char item of _parseSet (lines 177-184 and 188-195)
parseSetItem(s, pos) ==
    LET r == parseRange(s, pos)
    IN  IF ~r.ok THEN r
        ELSE IF ~r.none THEN r
        ELSE parseChar(s, pos)

RECURSIVE parseSetLoop(_, _, _, _)
\* the while loop of _parseSet
parseSetLoop(s, pos, children, next_escape) ==
    IF done(s, pos)
    THEN ParseOk([ExprNode("CharacterSet") EXCEPT !.children = children], pos)
    ELSE IF peak(s, pos, 0) = "\\"
    THEN parseSetLoop(s, pos + 1, children, TRUE)
    ELSE IF next_escape
    THEN LET r == parseSetItem(s, pos)
         IN  IF ~r.ok THEN r
             ELSE parseSetLoop(s, r.pos, Append(children, <<r.node>>), FALSE)
    ELSE IF peak(s, pos, 0) = "]"
    THEN ParseOk([ExprNode("CharacterSet") EXCEPT !.children = children], pos)
    ELSE LET r == parseSetItem(s, pos)
         IN  IF ~r.ok THEN r
             ELSE parseSetLoop(s, r.pos, Append(children, <<r.node>>), FALSE)

\* _parseSet()
parseSet(s, pos) == parseSetLoop(s, pos, <<>>, FALSE)

\* curr_node.children[curr_or].append(node)
AppendChild(children, curr_or, node) ==
    [children EXCEPT ![curr_or + 1] = Append(@, node)]

\* a variant that lets the end of the input stand for the closing bracket
missing_close_unless_done(s, pos, char) == ~eat(s, pos, char) /\ ~done(s, pos)

\* "if not self._eat(')')" / "if not self._eat(']')": the closing bracket is absent
missing_close(s, pos, char) == ~eat(s, pos, char)

RECURSIVE parseGroupLoop(_, _, _, _, _)
\* the while loop of _parseGroup
parseGroupLoop(s, pos, is_root, children, curr_or) ==
    IF done(s, pos)
    THEN ParseOk([ExprNode("Group") EXCEPT !.children = children], pos)
    ELSE IF eat(s, pos, "(")
    THEN LET r == parseGroupLoop(s, pos + 1, FALSE, <<<<>>>>, 0)
         IN  IF ~r.ok THEN r
             ELSE IF missing_close(s, r.pos, ")") THEN ParseError(r.pos)
             ELSE LET q == assignQuantifier(s, r.pos + 1, r.node)
                  IN  parseGroupLoop(s, q.pos, is_root,
                                     AppendChild(children, curr_or, q.node), curr_or)
    ELSE IF peak(s, pos, 0) = ")"
    THEN IF is_root THEN ParseError(pos)
         ELSE ParseOk([ExprNode("Group") EXCEPT !.children = children], pos)
    ELSE IF eat(s, pos, "[")
    THEN LET r == parseSet(s, pos + 1)
         IN  IF ~r.ok THEN r
             ELSE IF missing_close(s, r.pos, "]") THEN ParseError(r.pos)
             ELSE LET q == assignQuantifier(s, r.pos + 1, r.node)
                  IN  parseGroupLoop(s, q.pos, is_root,
                                     AppendChild(children, curr_or, q.node), curr_or)
    ELSE IF peak(s, pos, 0) = "\\"
    THEN LET r == parseChar(s, pos + 1)
             q == assignQuantifier(s, r.pos, r.node)
         IN  parseGroupLoop(s, q.pos, is_root,
                            AppendChild(children, curr_or, q.node), curr_or)
    ELSE IF peak(s, pos, 0) = "."
    THEN LET r == parseAny(s, pos)
             q == assignQuantifier(s, r.pos, r.node)
         IN  parseGroupLoop(s, q.pos, is_root,
                            AppendChild(children, curr_or, q.node), curr_or)
    ELSE IF peak(s, pos, 0) = "|"
    THEN parseGroupLoop(s, pos + 1, is_root, Append(children, <<>>), curr_or + 1)
    ELSE IF peak(s, pos, 0) \notin SPECIAL_CHARS
    THEN LET r == parseChar(s, pos)
             q == assignQuantifier(s, r.pos, r.node)
         IN  parseGroupLoop(s, q.pos, is_root,
                            AppendChild(children, curr_or, q.node), curr_or)
    ELSE ParseError(pos)

\* _parseGroup(is_root)
parseGroup(s, pos, is_root) == parseGroupLoop(s, pos, is_root, <<<<>>>>, 0)

\* RegularCompiler.__init__: ast = _parse(Root); ast.type = Root
RegularCompiler(expr_str) ==
    LET r == parseGroup(expr_str, 0, TRUE)
    IN  IF r.ok THEN [r EXCEPT !.node.type = "Root"] ELSE r

\* ------------------------------------------------------------ NFA (NFA.py)
\* chr(): inverse of Ord on the model's characters
Chr(n) == CHOOSE c \in {" ", "(", ")", "*", "+", "-", ".", "?", "[", "\\", "]",
                        "a", "b", "c", "|", "ε"} : Ord(c) = n

\* State.__init__: a state is referred to by its id, which is also its index
\* in NFA.states (ids are handed out densely from next_state_id)
State(state_id, is_final) ==
    [id |-> state_id, is_final |-> is_final,
     transitions |-> <<>>, epsilon_transitions |-> {}]

\* keys of the transitions dict, in insertion order
Keys(transitions) == {transitions[i].char : i \in DOMAIN transitions}

\* State.add_transition on the transitions dict (insertion-ordered)
DictAdd(transitions, char, target) ==
    IF char \in Keys(transitions)
    THEN [i \in DOMAIN transitions |->
            IF transitions[i].char = char
            THEN [transitions[i] EXCEPT !.targets = @ \cup {target}]
            ELSE transitions[i]]
    ELSE Append(transitions, [char |-> char, targets |-> {target}])

\* transitions.get(char, set())
DictGet(transitions, char) ==
    IF char \in Keys(transitions)
    THEN (CHOOSE i \in DOMAIN transitions : transitions[i].char = char) 
    ELSE 0

Targets(transitions, char) ==
    IF DictGet(transitions, char) = 0 THEN {}
    ELSE transitions[DictGet(transitions, char)].targets

\* NFA.__init__ before _build_nfa; start_state / final_state None is -1
EmptyNFA == [states |-> <<>>, start_state |-> -1, final_state |-> -1,
             next_state_id |-> 0]

\* NFA.create_state
create_state(nfa, is_final) ==
    [nfa EXCEPT !.states = Append(@, State(nfa.next_state_id, is_final)),
                !.next_state_id = @ + 1,
                !.final_state = IF is_final THEN nfa.next_state_id ELSE @]

\* state.add_transition(char, target) for the state with the given id
add_transition(nfa, id, char, target) ==
    [nfa EXCEPT !.states[id + 1].transitions = DictAdd(@, char, target)]

\* state.add_epsilon_transition(target)
add_epsilon_transition(nfa, id, target) ==
    [nfa EXCEPT !.states[id + 1].epsilon_transitions = @ \cup {target}]

\* the two-state fragment start --label--> end shared by the basic nodes
BasicFragment(nfa, label) ==
    LET start == nfa.next_state_id
        end == nfa.next_state_id + 1
        n2 == create_state(create_state(nfa, FALSE), TRUE)
    IN  [add_transition(n2, start, label, end)
            EXCEPT !.start_state = start, !.final_state = end]

\* label of a Char node: "\\\\." for a literal dot, else the value itself
CharLabel(value) ==
    IF value = "." THEN <<"\\", "\\", ".">> ELSE <<value>>

\* _build_basic_node_char
build_basic_node_char(nfa, node) == BasicFragment(nfa, CharLabel(node.value))

\* _build_basic_node_any
build_basic_node_any(nfa, node) == BasicFragment(nfa, <<".">>)

\* label of a Range node: f"{chr(range_start)} - {chr(range_end)}"
RangeLabel(range_start, range_end) ==
    <<Chr(range_start), " ", "-", " ", Chr(range_end)>>

\* _build_basic_node_range
build_basic_node_range(nfa, node) ==
    BasicFragment(nfa, RangeLabel(node.start, node.end))

\* the start --eps--> end fragment of an empty group / empty concatenation
EpsilonFragment(nfa) ==
    LET start == nfa.next_state_id
        end == nfa.next_state_id + 1
        n2 == create_state(create_state(nfa, FALSE), TRUE)
    IN  [add_epsilon_transition(n2, start, end)
            EXCEPT !.start_state = start, !.final_state = end]

\* a copy of old_state renumbered by off (state_map[old] = old + off)
CopyState(old_state, off) ==
    [id |-> old_state.id + off, is_final |-> old_state.is_final,
     transitions |-> [i \in DOMAIN old_state.transitions |->
                        [char |-> old_state.transitions[i].char,
                         targets |-> {t + off : t \in old_state.transitions[i].targets}]],
     epsilon_transitions |-> {t + off : t \in old_state.epsilon_transitions}]

CopyStates(states, off) == [i \in DOMAIN states |-> CopyState(states[i], off)]

\* _apply_quantifier with the edges of '*' also for '+': new_start reaches
\* new_final without passing through the fragment
QuantifierEdges_plus_skips(nfa, quantifier, original_start, original_final, new_start, new_final) ==
    IF quantifier = "?"
    THEN add_epsilon_transition(
           add_epsilon_transition(
             add_epsilon_transition(nfa, new_start, original_start),
             new_start, new_final),
           original_final, new_final)
    ELSE IF quantifier = "*"
    THEN add_epsilon_transition(
           add_epsilon_transition(
             add_epsilon_transition(
               add_epsilon_transition(nfa, new_start, original_start),
               new_start, new_final),
             original_final, new_start),
           original_final, new_final)
    ELSE IF quantifier = "+"
    THEN add_epsilon_transition(
           add_epsilon_transition(
             add_epsilon_transition(
               add_epsilon_transition(nfa, new_start, original_start),
               new_start, new_final),
             original_final, original_start),
           original_final, new_final)
    ELSE nfa

\* the epsilon transitions _apply_quantifier adds for each quantifier
QuantifierEdges(nfa, quantifier, original_start, original_final, new_start, new_final) ==
    IF quantifier = "?"
    THEN add_epsilon_transition(
           add_epsilon_transition(
             add_epsilon_transition(nfa, new_start, original_start),
             new_start, new_final),
           original_final, new_final)
    ELSE IF quantifier = "*"
    THEN add_epsilon_transition(
           add_epsilon_transition(
             add_epsilon_transition(
               add_epsilon_transition(nfa, new_start, original_start),
               new_start, new_final),
             original_final, new_start),
           original_final, new_final)
    ELSE IF quantifier = "+"
    THEN add_epsilon_transition(
           add_epsilon_transition(
             add_epsilon_transition(nfa, new_start, original_start),
             original_final, original_start),
           original_final, new_final)
    ELSE nfa

\* _apply_quantifier without "original_final.is_final = False": the wrapped
\* fragment's accept state keeps its flag
apply_quantifier_keeps_final(nfa, quantifier) ==
    IF nfa.start_state = -1 \/ nfa.final_state = -1 THEN nfa
    ELSE
    LET new_start == nfa.next_state_id
        new_final == nfa.next_state_id + 1
        n2 == create_state(create_state(nfa, FALSE), TRUE)
        n4 == QuantifierEdges(n2, quantifier, nfa.start_state, nfa.final_state,
                              new_start, new_final)
    IN  [n4 EXCEPT !.start_state = new_start, !.final_state = new_final]

\* _apply_quantifier
apply_quantifier(nfa, quantifier) ==
    IF nfa.start_state = -1 \/ nfa.final_state = -1 THEN nfa
    ELSE
    LET new_start == nfa.next_state_id
        new_final == nfa.next_state_id + 1
        n2 == create_state(create_state(nfa, FALSE), TRUE)
        n3 == [n2 EXCEPT !.states[nfa.final_state + 1].is_final = FALSE]
        n4 == QuantifierEdges(n3, quantifier, nfa.start_state, nfa.final_state,
                              new_start, new_final)
    IN  [n4 EXCEPT !.start_state = new_start, !.final_state = new_final]

RECURSIVE NFA(_)
RECURSIVE build_concatenation(_, _)
RECURSIVE AlternationLoop(_, _, _, _, _)
RECURSIVE SubNFAs(_)
RECURSIVE ConnectLoop(_, _, _, _)

\* sub_nfas = [NFA(node) for node in nodes]
SubNFAs(nodes) ==
    IF nodes = <<>> THEN <<>>
    ELSE <<NFA(Head(nodes))>> \o SubNFAs(Tail(nodes))

\* offset of sub-NFA i in all_states (state_map of _build_concatenation)
RECURSIVE SubOffset(_, _)
SubOffset(sub_nfas, i) ==
    IF i <= 1 THEN 0
    ELSE SubOffset(sub_nfas, i - 1) + Len(sub_nfas[i - 1].states)

\* the loop connecting sub-NFA i to sub-NFA i + 1 in _build_concatenation
ConnectLoop(nfa, sub_nfas, base, i) ==
    IF i >= Len(sub_nfas) THEN nfa
    ELSE LET old_final == base + SubOffset(sub_nfas, i) + sub_nfas[i].final_state
             old_next_start == base + SubOffset(sub_nfas, i + 1)
                                 + sub_nfas[i + 1].start_state
             n1 == [nfa EXCEPT !.states[old_final + 1].is_final = FALSE]
         IN  ConnectLoop(add_epsilon_transition(n1, old_final, old_next_start),
                         sub_nfas, base, i + 1)

RECURSIVE CopyAll(_, _, _)
\* the renumbered copies of all_states, sub-NFA by sub-NFA
CopyAll(sub_nfas, base, i) ==
    IF i > Len(sub_nfas) THEN <<>>
    ELSE CopyStates(sub_nfas[i].states, base + SubOffset(sub_nfas, i))
           \o CopyAll(sub_nfas, base, i + 1)

\* _build_concatenation
build_concatenation(nfa, nodes) ==
    IF nodes = <<>> THEN EpsilonFragment(nfa)
    ELSE
    LET sub_nfas == SubNFAs(nodes)
        base == nfa.next_state_id
        copies == CopyAll(sub_nfas, base, 1)
        n1 == [nfa EXCEPT !.states = @ \o copies,
                          !.next_state_id = @ + Len(copies),
                          !.start_state = base + sub_nfas[1].start_state]
        n2 == ConnectLoop(n1, sub_nfas, base, 1)
        last == Len(sub_nfas)
    IN  [n2 EXCEPT !.final_state =
            base + SubOffset(sub_nfas, last) + sub_nfas[last].final_state]

RECURSIVE ConnectFinals(_, _, _, _, _)
\* "Connect sub-NFA's final states to end" in _build_alternation
ConnectFinals(nfa, sub_states, off, end, i) ==
    IF i > Len(sub_states) THEN nfa
    ELSE IF sub_states[i].is_final
    THEN ConnectFinals(
           add_epsilon_transition(
             [nfa EXCEPT !.states[sub_states[i].id + off + 1].is_final = FALSE],
             sub_states[i].id + off, end),
           sub_states, off, end, i + 1)
    ELSE ConnectFinals(nfa, sub_states, off, end, i + 1)

\* the for loop over the alternatives in _build_alternation
AlternationLoop(nfa, start, end, alternatives, i) ==
    IF i > Len(alternatives) THEN nfa
    ELSE IF alternatives[i] = <<>>
    THEN AlternationLoop(add_epsilon_transition(nfa, start, end),
                         start, end, alternatives, i + 1)
    ELSE LET sub_nfa == build_concatenation(EmptyNFA, alternatives[i])
             off == nfa.next_state_id
             \* create_state(state.is_final) for every sub-NFA state
             n1 == [nfa EXCEPT !.states = @ \o CopyStates(sub_nfa.states, off),
                               !.next_state_id = @ + Len(sub_nfa.states)]
             n2 == add_epsilon_transition(n1, start, off + sub_nfa.start_state)
             n3 == ConnectFinals(n2, sub_nfa.states, off, end, 1)
         IN  IF sub_nfa.start_state = -1
             THEN AlternationLoop(nfa, start, end, alternatives, i + 1)
             ELSE AlternationLoop(n3, start, end, alternatives, i + 1)

\* _build_alternation
build_alternation(nfa, alternatives) ==
    LET start == nfa.next_state_id
        end == nfa.next_state_id + 1
        n2 == create_state(create_state(nfa, FALSE), TRUE)
        n3 == AlternationLoop(n2, start, end, alternatives, 1)
    IN  [n3 EXCEPT !.start_state = start, !.final_state = end]

\* _build_basic_node_set
build_basic_node_set(nfa, node) == build_alternation(nfa, node.children)

\* _build_basic_node_group
build_basic_node_group(nfa, node) ==
    IF node.children = <<>> \/ node.children[1] = <<>>
    THEN EpsilonFragment(nfa)
    ELSE IF Len(node.children) > 1
    THEN build_alternation(nfa, node.children)
    ELSE build_concatenation(nfa, node.children[1])

\* _build_nfa
build_nfa(nfa, node) ==
    LET built ==
          CASE node.type = "Char" -> build_basic_node_char(nfa, node)
            [] node.type = "Any" -> build_basic_node_any(nfa, node)
            [] node.type = "CharacterSet" -> build_basic_node_set(nfa, node)
            [] node.type = "Range" -> build_basic_node_range(nfa, node)
            [] node.type \in {"Root", "Group"} -> build_basic_node_group(nfa, node)
            [] OTHER -> nfa
    IN  IF node.quantifier # NoneV THEN apply_quantifier(built, node.quantifier)
        ELSE built

\* NFA.__init__(node)
NFA(node) == build_nfa(EmptyNFA, node)

\* --------------------------------------------------------------- NFA.match
\* NFA._epsilon_closure(states)
RECURSIVE epsilon_closure(_, _)
epsilon_closure(nfa, states) ==
    LET next == states \cup
                UNION {nfa.states[st + 1].epsilon_transitions : st \in states}
    IN  IF next = states THEN states ELSE epsilon_closure(nfa, next)

\* str.split(" - ") on a label
RECURSIVE Split(_)
Split(str) ==
    LET hits == {i \in 1..(Len(str) - 2) : SubSeq(str, i, i + 2) = <<" ", "-", " ">>}
    IN  IF hits = {} THEN <<str>>
        ELSE LET i == CHOOSE h \in hits : \A g \in hits : h <= g
             IN  <<SubSeq(str, 1, i - 1)>> \o Split(SubSeq(str, i + 3, Len(str)))

\* the condition of NFA.match without "char == '.'" in the escaped-dot case:
\* the escaped-dot marker fires on every character
LabelMatches_escaped_dot_any(transition_char, char) ==
    LET split == Split(transition_char)
    IN  \/ transition_char = <<".">>
        \/ transition_char = <<char>>
        \/ transition_char = <<"\\", "\\", ".">>
        \/ /\ Len(split) = 2
           /\ Len(split[1]) = 1 /\ Len(split[2]) = 1
           /\ Ord(split[1][1]) <= Ord(char)
           /\ Ord(char) <= Ord(split[2][1])

\* the condition of NFA.match under which a transition fires on char
\* (the range parts are single characters for every label the builder makes)
LabelMatches(transition_char, char) ==
    LET split == Split(transition_char)
    IN  \/ transition_char = <<".">>
        \/ transition_char = <<char>>
        \/ (char = "." /\ transition_char = <<"\\", "\\", ".">>)
        \/ /\ Len(split) = 2
           /\ Len(split[1]) = 1 /\ Len(split[2]) = 1
           /\ Ord(split[1][1]) <= Ord(char)
           /\ Ord(char) <= Ord(split[2][1])

\* next_states of one step of NFA.match
NextStates(nfa, current_states, char) ==
    UNION {UNION {nfa.states[st + 1].transitions[i].targets :
                    i \in {j \in DOMAIN nfa.states[st + 1].transitions :
                             LabelMatches(nfa.states[st + 1].transitions[j].char, char)}} :
             st \in current_states}

RECURSIVE MatchLoop(_, _, _, _)
\* the for loop of NFA.match over input_string
MatchLoop(nfa, current_states, input_string, i) ==
    IF i > Len(input_string)
    THEN \E st \in current_states : nfa.states[st + 1].is_final
    ELSE LET next_states == NextStates(nfa, current_states, input_string[i])
             closed == epsilon_closure(nfa, next_states)
         IN  IF closed = {} THEN FALSE
             ELSE MatchLoop(nfa, closed, input_string, i + 1)

\* NFA.match
match(nfa, input_string) ==
    IF nfa.start_state = -1 THEN FALSE
    ELSE MatchLoop(nfa, epsilon_closure(nfa, {nfa.start_state}), input_string, 1)

\* ------------------------------------------------- NFA.to_json / save_json
\* f"S{state.id}"
StateName(id) == <<"S", id>>

\* int(state_name[1:])
StateIndex(state_name) == state_name[2]

EPSILON == <<"ε">>

\* a JSON value for a label: a scalar state name or a list of names (a list
\* is kept as the set of its elements; the loader only adds them to a set)
JsonEntry(key, is_list, targets) ==
    [key |-> key, is_list |-> is_list, targets |-> targets]

\* state_data[char] = ... for the regular transitions of a state
RegularEntries(transitions) ==
    [i \in DOMAIN transitions |->
        JsonEntry(transitions[i].char,
                  Cardinality(transitions[i].targets) # 1,
                  {StateName(t) : t \in transitions[i].targets})]

\* the state_data of one state; ok = FALSE when appending to state_data['ε']
\* raises because a regular transition already stored a scalar under that key
StateData(state) ==
    LET regular == RegularEntries(state.transitions)
        eps == {StateName(t) : t \in state.epsilon_transitions}
        hit == {i \in DOMAIN regular : regular[i].key = EPSILON}
        entries ==
            IF eps = {} THEN regular
            ELSE IF hit = {} THEN Append(regular, JsonEntry(EPSILON, TRUE, eps))
            ELSE [i \in DOMAIN regular |->
                    IF i \in hit
                    THEN [regular[i] EXCEPT !.targets = @ \cup eps]
                    ELSE regular[i]]
    IN  [ok |-> eps = {} \/ \A i \in hit : regular[i].is_list,
         name |-> StateName(state.id),
         isTerminatingState |-> state.is_final,
         entries |-> entries]

\* NFA.to_json
to_json(nfa) ==
    LET data == [i \in DOMAIN nfa.states |-> StateData(nfa.states[i])]
    IN  [ok |-> \A i \in DOMAIN data : data[i].ok,
         startingState |-> StateName(nfa.start_state),
         states |-> data]

\* json.dump turns a None key into the string "null"
JsonKey(key) == IF key = <<NoneV>> THEN <<"n", "u", "l", "l">> ELSE key

\* NFA.save_json: json.dump(self.to_json())
save_json(nfa) ==
    LET result == to_json(nfa)
    IN  [result EXCEPT !.states =
            [i \in DOMAIN result.states |->
                [result.states[i] EXCEPT !.entries =
                    [j \in DOMAIN result.states[i].entries |->
                        [result.states[i].entries[j] EXCEPT !.key = JsonKey(@)]]]]]

\* ------------------------------------------------- DFA.py: loading the NFA
\* reference to the State object DFA.__load_NFA_json builds for
\* data["startingState"]; every other NFA state is referred to by its index
\* in nfa.states
PHANTOM == -1
\* None as nfa.final_state
NO_STATE == -2

\* DFA.py State.__init__ (ε-transitions live in transitions under the key "ε")
DState(state_id, is_final) ==
    [id |-> state_id, is_final |-> is_final, transitions |-> <<>>]

\* DFA.py State.add_transition, once per target of a JSON entry
DictAddSet(transitions, action, targets) ==
    IF targets = {} THEN transitions
    ELSE IF action \in Keys(transitions)
    THEN [i \in DOMAIN transitions |->
            IF transitions[i].char = action
            THEN [transitions[i] EXCEPT !.targets = @ \cup targets]
            ELSE transitions[i]]
    ELSE Append(transitions, [char |-> action, targets |-> targets])

RECURSIVE LoadEntries(_, _, _)
\* "for action, targets in state_data.items()" of one state
LoadEntries(transitions, entries, j) ==
    IF j > Len(entries) THEN transitions
    ELSE LoadEntries(
           DictAddSet(transitions, entries[j].key,
                      {StateIndex(t) : t \in entries[j].targets}),
           entries, j + 1)

RECURSIVE LoadTransitions(_, _, _)
\* "Adding NFA transitions": current_state = nfa.states[int(state_name[1:])]
LoadTransitions(states, data, i) ==
    IF i > Len(data) THEN states
    ELSE LET k == StateIndex(data[i].name) + 1
         IN  LoadTransitions(
               [states EXCEPT ![k].transitions = LoadEntries(@, data[i].entries, 1)],
               data, i + 1)

RECURSIVE LoadActions(_, _, _)
\* self.actions.append(action) for every non-ε key, in file order
LoadActions(data, i, j) ==
    IF i > Len(data) THEN <<>>
    ELSE IF j > Len(data[i].entries) THEN LoadActions(data, i + 1, 1)
    ELSE IF data[i].entries[j].key # EPSILON
    THEN <<data[i].entries[j].key>> \o LoadActions(data, i, j + 1)
    ELSE LoadActions(data, i, j + 1)

\* __load_NFA_json: the loaded nfa and self.actions
load_NFA_json(data) ==
    LET created == [i \in DOMAIN data.states |->
                      DState(data.states[i].name, data.states[i].isTerminatingState)]
        finals == {i \in DOMAIN created : created[i].is_final}
    IN  [nfa |-> [states |-> LoadTransitions(created, data.states, 1),
                  start_state |-> DState(data.startingState, FALSE),
                  final_state |-> IF finals = {} THEN NO_STATE
                                  ELSE (CHOOSE i \in finals : \A j \in finals : j <= i) - 1],
         actions |-> LoadActions(data.states, 1, 1)]

\* the State object behind a reference
RefState(nfa, r) == IF r = PHANTOM THEN nfa.start_state ELSE nfa.states[r + 1]

\* self.nfa.states[int(state.id[1:])]
Lookup(nfa, r) == nfa.states[StateIndex(RefState(nfa, r).id) + 1]

RECURSIVE ClosureLoop(_, _)
ClosureLoop(nfa, all_states) ==
    LET next == all_states \cup
                UNION {Targets(Lookup(nfa, r).transitions, EPSILON) : r \in all_states}
    IN  IF next = all_states THEN all_states ELSE ClosureLoop(nfa, next)

\* DFA.__epsilon_closure(state)
dfa_epsilon_closure(nfa, state) == ClosureLoop(nfa, {state})

\* ---------------------------------------------------- subset construction
\* the orders in which CPython may iterate a set of state ids
IterationOrders == {"asc", "desc"}

RECURSIVE Join(_, _)
\* " ".join(map(str, ids)) for a set of state names iterated in the given order
Join(ids, order) ==
    IF ids = {} THEN <<>>
    ELSE LET first == IF order = "asc"
                      THEN CHOOSE x \in ids : \A y \in ids : StateIndex(x) <= StateIndex(y)
                      ELSE CHOOSE x \in ids : \A y \in ids : StateIndex(x) >= StateIndex(y)
         IN  <<first>> \o Join(ids \ {first}, order)

\* the set ids of DFA_State.set_to_string
IdSet(nfa, nfa_states) == {RefState(nfa, r).id : r \in nfa_states}

\* DFA_State.set_to_string
set_to_string(nfa, nfa_states, order) == Join(IdSet(nfa, nfa_states), order)

\* DFA_State.__init__
DFA_State(nfa, nfa_states, is_final, order) ==
    [states |-> nfa_states, id |-> set_to_string(nfa, nfa_states, order),
     is_final |-> is_final]

\* DFA_State.__eq__ / __hash__: identity is the id string
SameState(x, y) == x.id = y.id

\* x in collection, for a set (or the values of a list) of DFA_State
Member(x, collection) == \E y \in collection : SameState(x, y)

\* set.add on a set of DFA_State
AddState(collection, x) ==
    IF Member(x, collection) THEN collection ELSE collection \cup {x}

\* the NFA states of dfa_state that carry the action
Carriers(nfa, dfa_state, action) ==
    {r \in dfa_state.states : action \in Keys(RefState(nfa, r).transitions)}

\* curr_reachable_states after "curr_reachable_states |= next_reachable_states"
Grown(nfa, r, action) ==
    LET curr_reachable_states == Targets(RefState(nfa, r).transitions, action)
    IN  curr_reachable_states \cup
        UNION {dfa_epsilon_closure(nfa, next_state) : next_state \in curr_reachable_states}

\* __get_reachable_states: the returned set
get_reachable_states(nfa, dfa_state, action) ==
    UNION {Grown(nfa, r, action) : r \in Carriers(nfa, dfa_state, action)}

\* __get_reachable_states: the NFA after the in-place "|=" on
\* nfa_state.transitions[action]
GrowTransitions(nfa, dfa_state, action) ==
    LET carriers == Carriers(nfa, dfa_state, action)
        grow(r, transitions) ==
            [i \in DOMAIN transitions |->
                IF transitions[i].char = action
                THEN [transitions[i] EXCEPT !.targets = Grown(nfa, r, action)]
                ELSE transitions[i]]
    IN  [nfa EXCEPT
           !.states = [i \in DOMAIN nfa.states |->
                         IF (i - 1) \in carriers
                         THEN [nfa.states[i] EXCEPT !.transitions = grow(i - 1, @)]
                         ELSE nfa.states[i]],
           !.start_state = IF PHANTOM \in carriers
                           THEN [@ EXCEPT !.transitions = grow(PHANTOM, @)]
                           ELSE @]

\* (src, target, action) in self.transitions
HasTransition(list, src, target, action) ==
    \E i \in DOMAIN list :
        /\ SameState(list[i][1], src)
        /\ SameState(list[i][2], target)
        /\ list[i][3] = action

\* ------------------------------------------------------------ minimization
\* None as a DFA state (dict.get(action, None))
NONE_STATE == [states |-> {}, id |-> <<>>, is_final |-> FALSE]

RECURSIVE TableLoop(_, _, _)
\* the first for loop of __create_transition_table: later entries overwrite;
\* the table is keyed by DFA state, i.e. by id
TableLoop(table, list, i) ==
    IF i > Len(list) THEN table
    ELSE LET src == list[i][1].id
             row == IF src \in DOMAIN table THEN table[src] ELSE <<>>
             row2 == [a \in DOMAIN row \cup {list[i][3]} |->
                        IF a = list[i][3] THEN list[i][2] ELSE row[a]]
         IN  TableLoop([k \in DOMAIN table \cup {src} |->
                          IF k = src THEN row2 ELSE table[k]],
                       list, i + 1)

\* __create_transition_table
create_transition_table(list, st) ==
    LET table == TableLoop(<<>>, list, 1)
    IN  [k \in DOMAIN table \cup {x.id : x \in st} |->
            IF k \in DOMAIN table THEN table[k] ELSE <<>>]

\* transition_table[state].get(action, None)
TableGet(table, state, action) ==
    IF action \in DOMAIN table[state.id] THEN table[state.id][action]
    ELSE NONE_STATE

\* all orders in which a set can be iterated
RECURSIVE Perms(_)
Perms(S) ==
    IF S = {} THEN {<<>>}
    ELSE UNION {{<<x>> \o p : p \in Perms(S \ {x})} : x \in S}

\* set.remove / membership by DFA_State identity
Remove(collection, x) == {y \in collection : ~SameState(x, y)}

\* "Add this state to a new group" ... "Add it to its new group" (lines 210-219)
SplitOff(acc, state, n) ==
    LET group == acc.state_to_group[state.id]
        removed == [acc.group_to_state EXCEPT ![group] = Remove(@, state)]
        added == [g \in DOMAIN removed \cup {n} |->
                    IF g = n
                    THEN (IF n \in DOMAIN removed THEN removed[n] ELSE {}) \cup {state}
                    ELSE removed[g]]
    IN  [state_to_group |-> [acc.state_to_group EXCEPT ![state.id] = n],
         group_to_state |-> added,
         new_states |-> AddState(acc.new_states, state)]

RECURSIVE SplitVisit(_, _, _, _, _, _, _, _)
\* "for state in curr_states" for one action (lines 202-219); target_group
\* None is -1
SplitVisit(acc, visit, k, action, curr_target, target_group, table, n) ==
    IF k > Len(visit) THEN acc
    ELSE LET state == visit[k]
             target_state == TableGet(table, state, action)
             next ==
               IF (curr_target = NONE_STATE \/ target_state = NONE_STATE)
                  /\ SameState(target_state, curr_target)
               THEN acc
               ELSE IF target_state = NONE_STATE
                       \/ acc.state_to_group[target_state.id] # target_group
               THEN SplitOff(acc, state, n)
               ELSE acc
         IN  SplitVisit(next, visit, k + 1, action, curr_target, target_group, table, n)

RECURSIVE SplitActions(_, _, _, _, _, _)
\* "for action in self.actions" of one popped group (lines 195-219)
SplitActions(acc, visit, a, acts, table, n) ==
    IF a > Len(acts) THEN acc
    ELSE LET curr_representative == visit[1]
             curr_target == TableGet(table, curr_representative, acts[a])
             target_group == IF curr_target # NONE_STATE
                             THEN acc.state_to_group[curr_target.id]
                             ELSE -1
         IN  SplitActions(
               SplitVisit(acc, visit, 1, acts[a], curr_target, target_group, table, n),
               visit, a + 1, acts, table, n)

\* __group_to_state: the merged DFA state
group_to_state_new(nfa, group, finals, order) ==
    DFA_State(nfa, UNION {d.states : d \in group},
              \E d \in group : Member(d, finals), order)

\* __group_to_state: self.start_state afterwards
group_to_state_start(nfa, group, finals, start, order) ==
    IF \E d \in group : SameState(d, start)
    THEN group_to_state_new(nfa, group, finals, order)
    ELSE start

RECURSIVE UpdateLoop(_, _, _, _, _, _, _)
\* the for loop of __update_transitions over the old transitions;
\* acc = [states, final_states, start_state, new_transitions]
UpdateLoop(acc, list, i, s2g, g2s, nfa, order) ==
    IF i > Len(list) THEN acc
    ELSE LET src_group == s2g[list[i][1].id]
             src == group_to_state_new(nfa, g2s[src_group], acc.final_states,
                                       order[src_group])
             start1 == group_to_state_start(nfa, g2s[src_group], acc.final_states,
                                            acc.start_state, order[src_group])
             target_group == s2g[list[i][2].id]
             target == group_to_state_new(nfa, g2s[target_group], acc.final_states,
                                          order[target_group])
             start2 == group_to_state_start(nfa, g2s[target_group], acc.final_states,
                                            start1, order[target_group])
             finals1 == IF src.is_final THEN AddState(acc.final_states, src)
                        ELSE acc.final_states
             finals2 == IF target.is_final THEN AddState(finals1, target) ELSE finals1
         IN  UpdateLoop(
               [states |-> AddState(AddState(acc.states, src), target),
                final_states |-> finals2,
                start_state |-> start2,
                new_transitions |->
                   IF HasTransition(acc.new_transitions, src, target, list[i][3])
                   THEN acc.new_transitions
                   ELSE Append(acc.new_transitions, <<src, target, list[i][3]>>)],
               list, i + 1, s2g, g2s, nfa, order)

\* __update_transitions
update_transitions(list, finals, start, s2g, g2s, nfa, order) ==
    UpdateLoop([states |-> {}, final_states |-> finals, start_state |-> start,
                new_transitions |-> <<>>],
               list, 1, s2g, g2s, nfa, order)

RECURSIVE MinJsonLoop(_, _, _)
\* "Process transitions" of __min_to_json: result[src.id][action] = target.id
MinJsonLoop(result, list, i) ==
    IF i > Len(list) THEN result
    ELSE LET src == list[i][1]
             hit == {j \in DOMAIN result : result[j].name = src.id}
             base == IF hit = {}
                     THEN Append(result, [name |-> src.id,
                                          isTerminatingState |-> src.is_final,
                                          entries |-> <<>>])
                     ELSE result
             j == CHOOSE x \in DOMAIN base : base[x].name = src.id
             row == base[j].entries
             row2 == [a \in DOMAIN row \cup {list[i][3]} |->
                        IF a = list[i][3] THEN list[i][2].id ELSE row[a]]
         IN  MinJsonLoop([base EXCEPT ![j].entries = row2], list, i + 1)

\* __min_to_json
min_to_json(start, list) ==
    [startingState |-> start.id, states |-> MinJsonLoop(<<>>, list, 1)]

\* ------------------------------------------------------------------- state
VARIABLES
    regex,            \* the regular expression string handed to the compiler
    minimized,        \* the minimized argument of DFA.__init__
    orders,           \* set iteration orders the interpreter run can produce
    pc,               \* position in the pipeline
    ast,              \* result of RegularCompiler(regex)
    nfa,              \* the NFA built by NFA.py
    input,            \* the string handed to NFA.match
    result,           \* what NFA.match returned
    json,             \* contents of nfa.json
    dnfa,             \* DFA.nfa: the NFA loaded by DFA.py
    actions,          \* DFA.actions
    start_state,      \* DFA.start_state
    states,           \* DFA.states
    final_states,     \* DFA.final_states
    transitions,      \* DFA.transitions
    stack,            \* worklist of __construct_DFA
    curr_dfa_state,   \* the DFA state popped from the worklist
    action_i,         \* index into self.actions of the inner for loop
    transition_table, \* result of __create_transition_table
    state_to_group,   \* __split_states
    group_to_state,   \* __split_states
    num_of_groups,    \* __split_states
    split_stack,      \* worklist of __split_states
    passes,           \* completed runs of __minimize_DFA
    min_json,         \* contents of min_DFA.json
    history           \* the DFA after construction and after each minimization

frontVars == <<regex, minimized, orders, ast, nfa, input, result, json>>
dfaVars == <<dnfa, actions, start_state, states, final_states, transitions,
             stack, curr_dfa_state, action_i>>
minVars == <<transition_table, state_to_group, group_to_state, num_of_groups,
             split_stack, passes, min_json, history>>
vars == <<pc, frontVars, dfaVars, minVars>>

\* all strings over chars of length at most n
Strings(chars, n) == UNION {[1..k -> chars] : k \in 0..n}

\* characters of the exhaustively enumerated regexes
RegexChars == {"a", "b", "(", ")", "[", "]", "|", "*", "+", "?", "\\", ".", "-", "ε"}
\* characters of the strings matched
InputChars == {"a", "b", "."}
Inputs == Strings(InputChars, MaxInputLen)

EmptyJson == [ok |-> FALSE, startingState |-> <<>>, states |-> <<>>]
EmptyDNFA == [states |-> <<>>, start_state |-> DState(<<>>, FALSE),
              final_state |-> NO_STATE]
EmptyMinJson == [startingState |-> <<>>, states |-> <<>>]

\* the state before RegularCompiler runs on the chosen regex
InitWith(regexes, minimize, orderSets) ==
    /\ regex \in regexes
    /\ minimized \in minimize
    /\ orders \in orderSets
    /\ pc = "parse"
    /\ ast = ParseError(0)
    /\ nfa = EmptyNFA
    /\ input = <<>>
    /\ result = FALSE
    /\ json = EmptyJson
    /\ dnfa = EmptyDNFA
    /\ actions = <<>>
    /\ start_state = NONE_STATE
    /\ states = {}
    /\ final_states = {}
    /\ transitions = <<>>
    /\ stack = <<>>
    /\ curr_dfa_state = NONE_STATE
    /\ action_i = 0
    /\ transition_table = <<>>
    /\ state_to_group = <<>>
    /\ group_to_state = <<>>
    /\ num_of_groups = 0
    /\ split_stack = <<>>
    /\ passes = 0
    /\ min_json = EmptyMinJson
    /\ history = <<>>

\* ---------------------------------------------------------------- actions
\* RegexCompiler(regex_str) in regex_to_nfa
Parse ==
    /\ pc = "parse"
    /\ ast' = RegularCompiler(regex)
    /\ pc' = IF ast'.ok THEN "build" ELSE "syntax_error"
    /\ UNCHANGED <<regex, minimized, orders, nfa, input, result, json>>
    /\ UNCHANGED <<dfaVars, minVars>>

\* NFA(regex.ast) in regex_to_nfa
BuildNFA ==
    /\ pc = "build"
    /\ nfa' = NFA(ast.node)
    /\ pc' = "nfa"
    /\ UNCHANGED <<regex, minimized, orders, ast, input, result, json>>
    /\ UNCHANGED <<dfaVars, minVars>>

\* nfa.match(test_str)
Match ==
    /\ pc = "nfa"
    /\ \E s \in Inputs :
        /\ input' = s
        /\ result' = match(nfa, s)
    /\ pc' = "matched"
    /\ UNCHANGED <<regex, minimized, orders, ast, nfa, json>>
    /\ UNCHANGED <<dfaVars, minVars>>

\* nfa.save_json()
SaveJson ==
    /\ pc = "nfa"
    /\ json' = save_json(nfa)
    /\ pc' = IF json'.ok THEN "saved" ELSE "export_error"
    /\ UNCHANGED <<regex, minimized, orders, ast, nfa, input, result>>
    /\ UNCHANGED <<dfaVars, minVars>>

\* DFA.__init__ up to the end of __load_NFA_json
LoadNFAJson ==
    /\ pc = "saved"
    /\ dnfa' = load_NFA_json(json).nfa
    /\ actions' = load_NFA_json(json).actions
    /\ pc' = "loaded"
    /\ UNCHANGED <<start_state, states, final_states, transitions, stack,
                   curr_dfa_state, action_i>>
    /\ UNCHANGED <<frontVars, minVars>>

\* __construct_DFA, "Get start state of DFA" up to the while loop
ConstructStart ==
    /\ pc = "loaded"
    /\ \E order \in orders :
        start_state' = DFA_State(dnfa, dfa_epsilon_closure(dnfa, PHANTOM), FALSE, order)
    /\ states' = {start_state'}
    /\ stack' = <<start_state'>>
    /\ pc' = "construct"
    /\ UNCHANGED <<dnfa, actions, final_states, transitions, curr_dfa_state, action_i>>
    /\ UNCHANGED <<frontVars, minVars>>

\* __construct_DFA: curr_dfa_state = stack.pop()
ConstructPop ==
    /\ pc = "construct"
    /\ stack # <<>>
    /\ curr_dfa_state' = stack[Len(stack)]
    /\ stack' = SubSeq(stack, 1, Len(stack) - 1)
    /\ action_i' = 1
    /\ pc' = IF actions = <<>> THEN "construct" ELSE "actions"
    /\ UNCHANGED <<dnfa, actions, start_state, states, final_states, transitions>>
    /\ UNCHANGED <<frontVars, minVars>>

\* __construct_DFA: one iteration of "for action in self.actions"
ConstructAction ==
    /\ pc = "actions"
    /\ LET action == actions[action_i]
           reachable == get_reachable_states(dnfa, curr_dfa_state, action)
       IN  /\ dnfa' = GrowTransitions(dnfa, curr_dfa_state, action)
           /\ \E order \in orders :
               LET new_dfa_state == DFA_State(dnfa', reachable, FALSE, order)
                   is_new == ~Member(new_dfa_state, states)
               IN  IF reachable = {}
                   THEN UNCHANGED <<states, stack, final_states, transitions>>
                   ELSE /\ states' = AddState(states, new_dfa_state)
                        /\ stack' = IF is_new THEN Append(stack, new_dfa_state)
                                    ELSE stack
                        /\ final_states' =
                              IF is_new /\ dnfa.final_state \in reachable
                              THEN AddState(final_states, new_dfa_state)
                              ELSE final_states
                        /\ transitions' =
                              IF HasTransition(transitions, curr_dfa_state,
                                               new_dfa_state, action)
                              THEN transitions
                              ELSE Append(transitions,
                                          <<curr_dfa_state, new_dfa_state, action>>)
    /\ action_i' = action_i + 1
    /\ pc' = IF action_i = Len(actions) THEN "construct" ELSE "actions"
    /\ UNCHANGED <<actions, start_state, curr_dfa_state>>
    /\ UNCHANGED <<frontVars, minVars>>

\* the DFA as an automaton: what a finished construction or minimization leaves
Snapshot(st, start, finals, trans) ==
    [states |-> st, start_state |-> start, final_states |-> finals,
     transitions |-> trans]

\* __construct_DFA returns: the worklist is empty
ConstructDone ==
    /\ pc = "construct"
    /\ stack = <<>>
    /\ pc' = "constructed"
    /\ history' = <<Snapshot(states, start_state, final_states, transitions)>>
    /\ UNCHANGED <<transition_table, state_to_group, group_to_state,
                   num_of_groups, split_stack, passes, min_json>>
    /\ UNCHANGED <<frontVars, dfaVars>>

\* ------------------------------------------------------ minimizer actions
\* __minimize_DFA: transition_table = self.__create_transition_table()
CreateTransitionTable ==
    /\ \/ pc = "constructed" /\ minimized
       \/ pc = "minimized" /\ passes < MaxPasses
    /\ transition_table' = create_transition_table(transitions, states)
    /\ pc' = "split_init"
    /\ UNCHANGED <<state_to_group, group_to_state, num_of_groups, split_stack,
                   passes, min_json, history>>
    /\ UNCHANGED <<frontVars, dfaVars>>

\* __split_states up to the while loop (lines 170-186)
SplitInit ==
    /\ pc = "split_init"
    /\ state_to_group' = [k \in {x.id : x \in states} |->
                            IF \E f \in final_states : f.id = k THEN 1 ELSE 0]
    /\ group_to_state' = [g \in {0, 1} |->
                            {x \in states : Member(x, final_states) <=> g = 1}]
    /\ num_of_groups' = 2
    /\ split_stack' = <<group_to_state'[0], group_to_state'[1]>>
    /\ pc' = "split"
    /\ UNCHANGED <<transition_table, passes, min_json, history>>
    /\ UNCHANGED <<frontVars, dfaVars>>

\* __split_states: one iteration of "while stack" (lines 188-227); popping an
\* empty group raises IndexError at list(curr_states)[0]
SplitPop ==
    /\ pc = "split"
    /\ split_stack # <<>>
    /\ LET curr_states == split_stack[Len(split_stack)]
           rest == SubSeq(split_stack, 1, Len(split_stack) - 1)
       IN  IF curr_states = {}
           THEN /\ pc' = "index_error"
                /\ split_stack' = rest
                /\ UNCHANGED <<state_to_group, group_to_state, num_of_groups>>
           ELSE \E visit \in Perms(curr_states) :
                  LET acc == SplitActions(
                               [state_to_group |-> state_to_group,
                                group_to_state |-> group_to_state,
                                new_states |-> {}],
                               visit, 1, actions, transition_table, num_of_groups)
                      kept == {x \in curr_states : ~Member(x, acc.new_states)}
                  IN  /\ state_to_group' = acc.state_to_group
                      /\ group_to_state' = acc.group_to_state
                      /\ split_stack' = IF acc.new_states # {}
                                        THEN rest \o <<kept, acc.new_states>>
                                        ELSE rest
                      /\ num_of_groups' = IF acc.new_states # {}
                                          THEN num_of_groups + 1
                                          ELSE num_of_groups
                      /\ pc' = "split"
    /\ UNCHANGED <<transition_table, passes, min_json, history>>
    /\ UNCHANGED <<frontVars, dfaVars>>

\* __minimize_DFA after __split_states returns: __update_transitions and
\* __min_to_json
UpdateTransitions ==
    /\ pc = "split"
    /\ split_stack = <<>>
    /\ \E order \in [DOMAIN group_to_state -> orders] :
         LET acc == update_transitions(transitions, final_states, start_state,
                                       state_to_group, group_to_state, dnfa, order)
         IN  /\ states' = acc.states
             /\ final_states' = acc.final_states
             /\ start_state' = acc.start_state
             /\ transitions' = acc.new_transitions
    /\ min_json' = min_to_json(start_state', transitions')
    /\ passes' = passes + 1
    /\ history' = Append(history, Snapshot(states', start_state', final_states',
                                           transitions'))
    /\ pc' = "minimized"
    /\ UNCHANGED <<dnfa, actions, stack, curr_dfa_state, action_i>>
    /\ UNCHANGED <<transition_table, state_to_group, group_to_state,
                   num_of_groups, split_stack>>
    /\ UNCHANGED frontVars

\* --------------------------------------------------------- specifications
\* regexes that combine alternation, sets, groups and quantifiers
FrontCorpus ==
    {<<"(", "a", "|", "[", "a", "b", "]", ")", "*", "b", "+">>,
     <<"[", "a", "]", "*", "|", "b", "?", "|">>,
     <<"(", "(", "a", "|", ")", "+", "|", "b", ")", "?">>,
     <<"(", "a", "|", "b", ")", "+">>,
     <<"[", "a", "-", "a", "]">>,
     <<"[", "b", "-", "c", "]", "\\", ".">>,
     <<"(", "(", "a", ")", "|", "(", "b">>,
     <<"[", "\\", "a", "-", "c", "]">>, <<"[", "\\", "\\", "]">>}

\* front end: regex_to_nfa followed by nfa.match
InitNFA == InitWith(Strings(RegexChars, MaxRegexLen) \cup FrontCorpus,
                    {FALSE}, {IterationOrders})
NextNFA == Parse \/ BuildNFA \/ Match
SpecNFA == InitNFA /\ [][NextNFA]_vars

\* characters of the regexes compiled to a DFA
DFAChars == {"a", "|", "*", "[", "]", "\\", "ε"}

\* a regex whose NFA carries the same label twice
DFACorpus == {<<"a", "+", "a", "+">>}

\* regex_to_nfa, save_json and DFA(minimized=False); a set of state ids may be
\* iterated in any order
Init == InitWith(Strings(DFAChars, MaxRegexLen) \cup DFACorpus,
                 {FALSE}, {IterationOrders})
Next ==
    \/ Parse
    \/ BuildNFA
    \/ SaveJson
    \/ LoadNFAJson
    \/ ConstructStart
    \/ ConstructPop
    \/ ConstructAction
    \/ ConstructDone
Spec == Init /\ [][Next]_vars

\* characters of the short regexes handed to the minimizer
MinChars == {"a", "b", "|", "*"}
\* longer regexes handed to the minimizer
MinCorpus ==
    {<<"a", "a", "a", "a", "a", "|">>,
     <<"a", "*", "b", "a", "a">>}

\* regex_to_nfa, save_json and DFA(minimized=True), the minimizer run again on
\* its own result; an interpreter run that iterates id sets in ascending order
InitMin == InitWith(Strings(MinChars, MaxRegexLen) \cup MinCorpus,
                    {TRUE}, {{"asc"}})
NextMin ==
    \/ Parse
    \/ BuildNFA
    \/ SaveJson
    \/ LoadNFAJson
    \/ ConstructStart
    \/ ConstructPop
    \/ ConstructAction
    \/ ConstructDone
    \/ CreateTransitionTable
    \/ SplitInit
    \/ SplitPop
    \/ UpdateTransitions
SpecMin == InitMin /\ [][NextMin]_vars

\* ------------------------------------------------- DFAs as language acceptors
\* the DFA the program holds now
CurrentDFA == Snapshot(states, start_state, final_states, transitions)

\* the labels of self.actions
Labels == {actions[i] : i \in DOMAIN actions}

RECURSIVE RunChars(_, _, _, _)
\* ids of the DFA states reached from current on s[i..], a transition firing
\* on a character under the label rule of NFA.match
RunChars(dfa, current, s, i) ==
    IF i > Len(s) THEN current
    ELSE RunChars(dfa,
                  {dfa.transitions[k][2].id :
                     k \in {j \in DOMAIN dfa.transitions :
                              /\ dfa.transitions[j][1].id \in current
                              /\ LabelMatches(dfa.transitions[j][3], s[i])}},
                  s, i + 1)

\* the DFA accepts the string s
DFAAccepts(dfa, s) ==
    \E f \in dfa.final_states : f.id \in RunChars(dfa, {dfa.start_state.id}, s, 1)

RECURSIVE RunLabels(_, _, _, _)
\* ids of the DFA states reached from current on the label sequence w[i..]
RunLabels(dfa, current, w, i) ==
    IF i > Len(w) THEN current
    ELSE RunLabels(dfa,
                   {dfa.transitions[k][2].id :
                      k \in {j \in DOMAIN dfa.transitions :
                               /\ dfa.transitions[j][1].id \in current
                               /\ dfa.transitions[j][3] = w[i]}},
                   w, i + 1)

\* the label sequences of length at most MaxSeqLen the DFA accepts
LabelLanguage(dfa) ==
    {w \in Strings(Labels, MaxSeqLen) :
        \E f \in dfa.final_states : f.id \in RunLabels(dfa, {dfa.start_state.id}, w, 1)}

\* ------------------------------------------------------------------ claims
\* C1: the subset-construction DFA accepts an input string exactly when
\* NFA.match returns true on it, the empty string and regexes whose NFA start
\* state has labeled transitions included.
C1_DFAEquivalentToNFA ==
    pc = "constructed" =>
        \A s \in Inputs : DFAAccepts(CurrentDFA, s) <=> match(nfa, s)

\* C2: the minimized DFA accepts exactly the label sequences the
\* subset-construction DFA accepts.
C2_MinimizationPreservesLanguage ==
    (pc = "minimized" /\ passes = 1) =>
        LabelLanguage(history[2]) = LabelLanguage(history[1])

\* C3: after subset construction a DFA state, the start state included, is in
\* final_states if and only if its set of NFA states contains the accept state.
C3_FinalIffContainsAccept ==
    pc = "constructed" =>
        \A x \in states \cup {start_state} :
            Member(x, final_states) <=> dnfa.final_state \in x.states

\* C4: the compiled NFA has exactly one state flagged final, it is
\* final_state, and its one start state is one of its states (states are
\* numbered by their position, so a state id denotes exactly one state).
C4_OneFinalOneStart ==
    pc \in {"nfa", "matched"} =>
        /\ {i \in DOMAIN nfa.states : nfa.states[i].is_final} = {nfa.final_state + 1}
        /\ nfa.start_state + 1 \in DOMAIN nfa.states
        /\ \A i \in DOMAIN nfa.states : nfa.states[i].id = i - 1

\* a quantified group or set, an alternation with an empty alternative and a
\* concatenation were compiled together
C4_Witness ==
    /\ pc = "nfa"
    /\ regex = <<"(", "a", "|", "[", "a", "b", "]", ")", "*", "b", "+">>
    /\ Len(nfa.states) > 10
    /\ Cardinality({i \in DOMAIN nfa.states : nfa.states[i].is_final}) = 1

\* the transition list is deterministic
Deterministic(list) ==
    \A i, j \in DOMAIN list :
        (SameState(list[i][1], list[j][1]) /\ list[i][3] = list[j][3])
            => SameState(list[i][2], list[j][2])

\* C5: in the subset-construction DFA and in the minimized DFA the transition
\* list has at most one target for each (source state, label).
C5_Deterministic ==
    pc \in {"constructed", "minimized"} => Deterministic(transitions)

\* C6: no two members of the DFA state set have equal sets of NFA ids.
C6_UniqueSubsets ==
    pc = "constructed" =>
        \A x, y \in states :
            IdSet(dnfa, x.states) = IdSet(dnfa, y.states) => x = y

\* d1 and d2 have the same number of states and the same transitions, start
\* and accepting states up to a renaming of the states
Isomorphic(d1, d2) ==
    LET ids1 == {x.id : x \in d1.states}
        ids2 == {x.id : x \in d2.states}
        edges(d) == {<<d.transitions[i][1].id, d.transitions[i][3],
                       d.transitions[i][2].id>> : i \in DOMAIN d.transitions}
        finals(d) == {x.id : x \in {y \in d.states : Member(y, d.final_states)}}
    IN  /\ Cardinality(ids1) = Cardinality(ids2)
        /\ Cardinality(edges(d1)) = Cardinality(edges(d2))
        /\ \E f \in [ids1 -> ids2] :
              /\ \A x, y \in ids1 : f[x] = f[y] => x = y
              /\ {<<f[e[1]], e[2], f[e[3]]>> : e \in edges(d1)} = edges(d2)
              /\ {f[x] : x \in finals(d1)} = finals(d2)
              /\ (d1.start_state.id \in ids1 =>
                     f[d1.start_state.id] = d2.start_state.id)

\* C7: minimizing an already minimized DFA gives a DFA with the same number
\* of states and the same transition structure up to state renaming.
C7_MinimizationIdempotent ==
    (pc = "minimized" /\ passes = 2) => Isomorphic(history[2], history[3])

\* delta with undefined transitions going to the sink, whose id is that of None
Delta(id, action) ==
    IF id = NONE_STATE.id \/ action \notin DOMAIN transition_table[id]
    THEN NONE_STATE.id
    ELSE transition_table[id][action].id

RECURSIVE Refine(_)
\* Moore's refinement: the pairs of states no label sequence distinguishes
Refine(pairs) ==
    LET next == {p \in pairs :
                   \A a \in Labels : <<Delta(p[1], a), Delta(p[2], a)>> \in pairs}
    IN  IF next = pairs THEN pairs ELSE Refine(next)

\* the pairs of states of the DFA being minimized, the sink included, that
\* accept the same label sequences
Indistinguishable ==
    LET ids == {x.id : x \in states} \cup {NONE_STATE.id}
        accepting(k) == \E f \in final_states : f.id = k
    IN  Refine({p \in ids \X ids : accepting(p[1]) <=> accepting(p[2])})

\* C8: when partition refinement ends, two states of the subset-construction
\* DFA are in different groups only if some label sequence distinguishes
\* them, whatever the order in which the states of a group were visited.
C8_MinimalPartition ==
    (pc = "split" /\ split_stack = <<>> /\ passes = 0) =>
        \A x, y \in states :
            state_to_group[x.id] # state_to_group[y.id]
                => <<x.id, y.id>> \notin Indistinguishable

RECURSIVE Reach(_, _)
\* the least set containing seen and closed under the successor function
Reach(succ, seen) ==
    LET next == seen \cup UNION {succ[x] : x \in seen}
    IN  IF next = seen THEN seen ELSE Reach(succ, next)

\* ids of the NFA states reachable from the start state
NFAReachable ==
    Reach([i \in {nfa.states[k].id : k \in DOMAIN nfa.states} |->
             nfa.states[i + 1].epsilon_transitions \cup
             UNION {nfa.states[i + 1].transitions[j].targets :
                      j \in DOMAIN nfa.states[i + 1].transitions}],
          {nfa.start_state})

\* ids of the DFA states reachable from the start state
DFAReachable ==
    Reach([k \in {x.id : x \in states \cup {start_state}} |->
             {transitions[j][2].id :
                j \in {i \in DOMAIN transitions : transitions[i][1].id = k}}],
          {start_state.id})

\* C9: every state of the compiled NFA is reachable from its start state and
\* every state of the DFA is reachable from the DFA start state.
C9_AllReachable ==
    pc = "constructed" =>
        /\ NFAReachable = {nfa.states[k].id : k \in DOMAIN nfa.states}
        /\ DFAReachable = {x.id : x \in states}

\* (source, label, target) of the labeled transitions of the built NFA
BuiltEdges ==
    UNION {UNION {{<<i - 1, nfa.states[i].transitions[j].char, t>> :
                     t \in nfa.states[i].transitions[j].targets} :
                  j \in DOMAIN nfa.states[i].transitions} :
           i \in DOMAIN nfa.states}

\* (source, target) of the epsilon transitions of the built NFA
BuiltEpsilon ==
    UNION {{<<i - 1, t>> : t \in nfa.states[i].epsilon_transitions} :
           i \in DOMAIN nfa.states}

\* the transitions of the loaded NFA under keys other than "ε"
LoadedEdges ==
    UNION {UNION {{<<i - 1, dnfa.states[i].transitions[j].char, t>> :
                     t \in dnfa.states[i].transitions[j].targets} :
                  j \in {k \in DOMAIN dnfa.states[i].transitions :
                           dnfa.states[i].transitions[k].char # EPSILON}} :
           i \in DOMAIN dnfa.states}

\* the transitions of the loaded NFA under the key "ε"
LoadedEpsilon ==
    UNION {{<<i - 1, t>> : t \in Targets(dnfa.states[i].transitions, EPSILON)} :
           i \in DOMAIN dnfa.states}

\* C10: the NFA loaded from the export has the labeled transitions, the
\* epsilon transitions, the start state and the accept states of the NFA that
\* was exported.
C10_JsonRoundTrip ==
    pc = "loaded" =>
        /\ Len(dnfa.states) = Len(nfa.states)
        /\ LoadedEdges = BuiltEdges
        /\ LoadedEpsilon = BuiltEpsilon
        /\ StateIndex(dnfa.start_state.id) = nfa.start_state
        /\ \A i \in DOMAIN nfa.states :
              dnfa.states[i].is_final = nfa.states[i].is_final

\* an alternative of a Root, Group or set accepts s: the empty alternative
\* accepts the empty string only, any other what its concatenation accepts
AlternativeAccepts(alternative, s) ==
    IF alternative = <<>> THEN s = <<>>
    ELSE match(build_concatenation(EmptyNFA, alternative), s)

\* the Root and the Groups that stand directly in one of its alternatives
GroupNodes ==
    {ast.node} \cup
    {g \in UNION {{ast.node.children[i][j] : j \in DOMAIN ast.node.children[i]} :
                  i \in DOMAIN ast.node.children} : g.type = "Group"}

\* C11: the NFA of a Root or Group with alternatives accepts exactly the
\* strings one of its alternatives accepts; an empty alternative at any
\* position adds the empty string and removes nothing.
C11_AlternationIsUnion ==
    pc = "nfa" =>
        \A g \in GroupNodes : \A s \in Inputs :
            g.children # <<>> =>
                (match(NFA([g EXCEPT !.quantifier = NoneV]), s)
                    <=> \E i \in DOMAIN g.children :
                           AlternativeAccepts(g.children[i], s))

RECURSIVE Nodes(_)
\* the node and every node below it in the AST
Nodes(node) ==
    {node} \cup
    UNION {UNION {Nodes(node.children[i][j]) : j \in DOMAIN node.children[i]} :
           i \in DOMAIN node.children}

\* the nodes of the parsed regex that carry a quantifier
QuantifiedNodes == {q \in Nodes(ast.node) : q.quantifier # NoneV}

RECURSIVE InStar(_, _)
\* s is a concatenation of zero or more non-empty strings the fragment accepts
InStar(fragment, s) ==
    \/ s = <<>>
    \/ \E k \in 1..Len(s) :
          /\ match(fragment, SubSeq(s, 1, k))
          /\ InStar(fragment, SubSeq(s, k + 1, Len(s)))

\* s is a concatenation of one or more strings the fragment accepts
InPlus(fragment, s) ==
    \E k \in 0..Len(s) :
        /\ match(fragment, SubSeq(s, 1, k))
        /\ InStar(fragment, SubSeq(s, k + 1, Len(s)))

\* C12: for every quantified node, F? accepts L(F) and the empty string, F*
\* zero or more repetitions of L(F), F+ one or more repetitions; the accept
\* state of F is no longer final and the new accept state is.
C12_QuantifierLanguages ==
    pc = "nfa" =>
        \A q \in QuantifiedNodes :
            LET fragment == NFA([q EXCEPT !.quantifier = NoneV])
                wrapped == NFA(q)
            IN  /\ \A s \in Inputs :
                      match(wrapped, s) <=>
                          CASE q.quantifier = "?" -> s = <<>> \/ match(fragment, s)
                            [] q.quantifier = "*" -> InStar(fragment, s)
                            [] q.quantifier = "+" -> InPlus(fragment, s)
                /\ wrapped.final_state # fragment.final_state
                /\ ~wrapped.states[fragment.final_state + 1].is_final
                /\ wrapped.states[wrapped.final_state + 1].is_final

\* a group under + was compiled: it rejects the empty string and accepts a
\* repetition
C12_Witness ==
    /\ pc = "nfa"
    /\ \E q \in QuantifiedNodes :
          /\ q.quantifier = "+"
          /\ q.type = "Group"
          /\ ~match(NFA(q), <<>>)
          /\ match(NFA(q), <<"a">>)
          /\ match(NFA(q), <<"a", "a">>)

\* the labels on the transitions of the compiled NFA
NFALabels ==
    UNION {{nfa.states[i].transitions[j].char : j \in DOMAIN nfa.states[i].transitions} :
           i \in DOMAIN nfa.states}

\* the label is a range marker "a - b"
IsRangeMarker(label) ==
    Len(label) = 5 /\ SubSeq(label, 2, 4) = <<" ", "-", " ">>

\* the firing rule: wildcard marker, the character itself, escaped-dot marker
\* on ".", or a range marker whose code points enclose the character
Fires(label, c) ==
    \/ label = <<".">>
    \/ label = <<c>>
    \/ (label = <<"\\", "\\", ".">> /\ c = ".")
    \/ (IsRangeMarker(label) /\ Ord(label[1]) <= Ord(c) /\ Ord(c) <= Ord(label[5]))

\* C13: a transition of the compiled NFA fires in NFA.match on a character
\* exactly under the firing rule; "\." matches only ".", "." matches every
\* single character and "[a-a]" matches only "a".
C13_LabelRule ==
    pc \in {"nfa", "matched"} =>
        /\ \A label \in NFALabels : \A c \in InputChars :
              LabelMatches(label, c) <=> Fires(label, c)
        /\ regex = <<"\\", ".">> => \A s \in Inputs : match(nfa, s) <=> s = <<".">>
        /\ regex = <<".">> => \A s \in Inputs : match(nfa, s) <=> Len(s) = 1
        /\ regex = <<"[", "a", "-", "a", "]">> =>
              \A s \in Inputs : match(nfa, s) <=> s = <<"a">>
        /\ pc = "matched" =>
              (result <=> match(nfa, input))

\* NFA.match ran on "." against an NFA that carries a range marker and the
\* escaped-dot marker, and on "a" against the range a-a
C13_Witness ==
    /\ pc = "matched"
    /\ \/ /\ \E label \in NFALabels : IsRangeMarker(label)
          /\ <<"\\", "\\", ".">> \in NFALabels
          /\ input = <<"b", ".">>
          /\ result
       \/ /\ regex = <<"[", "a", "-", "a", "]">>
          /\ input = <<"a">>
          /\ result

RECURSIVE TrailingBackslashes(_)
\* the number of backslashes the string ends with
TrailingBackslashes(str) ==
    IF str = <<>> \/ str[Len(str)] # "\\" THEN 0
    ELSE 1 + TrailingBackslashes(SubSeq(str, 1, Len(str) - 1))

\* the string ends with a backslash that escapes nothing
EndsWithLoneBackslash(str) == TrailingBackslashes(str) % 2 = 1

\* C14: parsing a regex that ends with a backslash with no character after
\* it fails; no AST is produced and nothing is built from it.
C14_TrailingBackslashFails ==
    (EndsWithLoneBackslash(regex) /\ pc # "parse") =>
        (pc = "syntax_error" /\ ~ast.ok)

\* the number of brackets still open when the text ends, reading it as the
\* grammar does: "\x" is one token, and inside a set "x-y" is one token
RECURSIVE OpenBrackets(_, _, _, _)
OpenBrackets(str, i, depth, in_set) ==
    IF i > Len(str) THEN depth + (IF in_set THEN 1 ELSE 0)
    ELSE IF str[i] = "\\" THEN OpenBrackets(str, i + 2, depth, in_set)
    ELSE IF in_set
    THEN IF str[i] = "]" THEN OpenBrackets(str, i + 1, depth, FALSE)
         ELSE IF i + 2 <= Len(str) /\ str[i + 1] = "-"
         THEN OpenBrackets(str, i + 3, depth, TRUE)
         ELSE OpenBrackets(str, i + 1, depth, TRUE)
    ELSE IF str[i] = "(" THEN OpenBrackets(str, i + 1, depth + 1, FALSE)
    ELSE IF str[i] = ")"
    THEN OpenBrackets(str, i + 1, IF depth > 0 THEN depth - 1 ELSE 0, FALSE)
    ELSE IF str[i] = "[" THEN OpenBrackets(str, i + 1, depth, TRUE)
    ELSE OpenBrackets(str, i + 1, depth, FALSE)

Unmatched(str) == OpenBrackets(str, 1, 0, FALSE) > 0

\* C15: a regex whose "(" or "[" is still open when the input ends, at any
\* nesting depth, fails to parse: the parser raises and no AST is produced
C15_UnmatchedBracketFails ==
    (Unmatched(regex) /\ pc # "parse") => (pc = "syntax_error" /\ ~ast.ok)

\* a set left open inside a group, and a group left open inside a group,
\* have both been rejected
C15_Witness ==
    /\ pc = "syntax_error"
    /\ OpenBrackets(regex, 1, 0, FALSE) >= 2
    /\ regex \in {<<"(", "[", "a">>, <<"(", "(", "a", ")", "|", "(", "b">>}

\* an accepting set or a non-accepting set with no state in it
EmptyBlock == final_states = {} \/ \A x \in states : Member(x, final_states)

\* C16: minimizing a DFA whose accepting set or non-accepting set is empty
\* completes normally: the empty block raises no error
C16_EmptyBlockDropped == EmptyBlock => pc # "index_error"

\* the entries of min_DFA.json under the name of a state
MinJsonEntries(state) ==
    {j \in DOMAIN min_json.states : min_json.states[j].name = state.id}

\* C17: min_DFA.json holds startingState and one entry for every state of the
\* minimized DFA, also for a state without outgoing transition, and each
\* entry's isTerminatingState is true exactly for an accepting state
C17_MinJsonComplete ==
    pc = "minimized" =>
      /\ min_json.startingState = start_state.id
      /\ \A x \in states :
           /\ Cardinality(MinJsonEntries(x)) = 1
           /\ \A j \in MinJsonEntries(x) :
                min_json.states[j].isTerminatingState <=> Member(x, final_states)

\* the NFA states a DFA state stands for, by their ids in the compiled NFA
\* (the start state object of the loader carries the id of the NFA start state)
RealStates(x) == {IF r = PHANTOM THEN nfa.start_state ELSE r : r \in x.states}

\* the subset construction step on the compiled NFA: the epsilon closure of
\* the union of the l-labeled targets of the NFA states in T
Move(T, l) ==
    epsilon_closure(nfa, UNION {Targets(nfa.states[r + 1].transitions, l) : r \in T})

\* C18: the DFA start state is the epsilon closure of the NFA start state, and
\* from every DFA state T, the start state included, the transition on a
\* label l leads to the epsilon closure of the union of the l-labeled targets
\* of the NFA states in T, the NFA start state's own labeled edges included
C18_SubsetConstruction ==
    pc = "constructed" =>
      /\ RealStates(start_state) = epsilon_closure(nfa, {nfa.start_state})
      /\ \A x \in states \cup {start_state} :
           \A l \in {e[2] : e \in BuiltEdges} :
             LET U == Move(RealStates(x), l)
                 out == {k \in DOMAIN transitions :
                           transitions[k][1].id = x.id /\ transitions[k][3] = l}
             IN  IF U = {} THEN out = {}
                 ELSE out # {} /\ \A k \in out : RealStates(transitions[k][2]) = U

\* the group of the state an action leads to, -1 when there is no transition
TargetGroup(id, action) ==
    IF Delta(id, action) = NONE_STATE.id THEN -1
    ELSE state_to_group[Delta(id, action)]

\* C19: when partition refinement stops the partition is stable: two states
\* of one group have, for every label, both no transition or transitions into
\* the same group, also in a group examined before its target group was split
C19_StablePartition ==
    (pc = "split" /\ split_stack = <<>>) =>
        \A x, y \in states :
            state_to_group[x.id] = state_to_group[y.id]
                => \A a \in Labels : TargetGroup(x.id, a) = TargetGroup(y.id, a)

\* the items of the character set that is the whole regex
SetItems == {ast.node.children[1][1].children[i][1] :
               i \in DOMAIN ast.node.children[1][1].children}

\* C20: inside a character set an escaped character is a literal Char item
\* with no range reading: [\a-c] holds the literal a and no Range, and [\\]
\* holds one literal backslash
C20_EscapedSetItemIsLiteral ==
    pc # "parse" =>
      /\ regex = <<"[", "\\", "a", "-", "c", "]">> =>
           /\ ast.ok
           /\ \E item \in SetItems : item.type = "Char" /\ item.value = "a"
           /\ \A item \in SetItems : item.type # "Range"
      /\ regex = <<"[", "\\", "\\", "]">> =>
           /\ ast.ok
           /\ Len(ast.node.children[1][1].children) = 1
           /\ \A item \in SetItems : item.type = "Char" /\ item.value = "\\"

\* the non-empty groups the refinement of the first minimization ended with
FinalGroups == {group_to_state[g] : g \in DOMAIN group_to_state} \ {{}}

\* the NFA states of the merged state of a group: the union of its members'
MergedStates(group) == UNION {d.states : d \in group}

\* C21: after minimization the start state is the merged state of the group
\* holding the original start state, final_states is exactly the set of merged
\* states with an accepting member, and the start state and every accepting
\* state are in the state set: no state from before minimization stays in
\* final_states
C21_MergedStartAndFinals ==
    (pc = "minimized" /\ passes = 1) =>
      /\ \E group \in FinalGroups :
           /\ Member(history[1].start_state, group)
           /\ start_state.states = MergedStates(group)
      /\ {f.states : f \in final_states} =
           {MergedStates(group) :
              group \in {g \in FinalGroups :
                           \E d \in g : Member(d, history[1].final_states)}}
      /\ Member(start_state, states)
      /\ \A f \in final_states : Member(f, states)

\* the transitions under keys other than "ε" that loading nfa.json gives
JsonEdges ==
    LET loaded == load_NFA_json(json).nfa
    IN  UNION {UNION {{<<i - 1, loaded.states[i].transitions[j].char, t>> :
                         t \in loaded.states[i].transitions[j].targets} :
                      j \in {k \in DOMAIN loaded.states[i].transitions :
                               loaded.states[i].transitions[k].char # EPSILON}} :
               i \in DOMAIN loaded.states}

\* C22: subset construction only reads the loaded NFA: when __construct_DFA
\* has finished, every labeled transition of every NFA state has the target
\* set that was loaded from the JSON, no epsilon-closure state added
C22_ConstructionReadsOnly == pc = "constructed" => LoadedEdges = JsonEdges

====
